---------------------------- MODULE Spec2Model ----------------------------
(***************************************************************************)
(* vtkWarpTransform (contrib/vtkWarpTransform.cxx): the forward/inverse    *)
(* dispatch of a warp transform and the Newton iteration that inverts the  *)
(* forward transform numerically.                                          *)
(*                                                                         *)
(* Numbers: a C++ double is modelled by an exact rational <<n, d>> in      *)
(* lowest terms with d > 0.  Every value the modelled runs produce is a    *)
(* small rational that a double computation orders the same way, so the    *)
(* comparisons that steer the code (loop condition, backtracking test,     *)
(* clamping) are the ones the code takes.                                  *)
(***************************************************************************)
EXTENDS Integers, Sequences, FiniteSets, TLC

(***************************************************************************)
(* Bounds of the model.                                                    *)
(***************************************************************************)
\* coordinates of the points handed to the transform: -MaxCoord..MaxCoord
MaxCoord == 1
\* iteration budgets tried besides the constructor's: -1..MaxIterations
MaxIterations == 3
\* number of Inverse() calls explored
MaxInverseCalls == 2

\* vtkWarpTransform::vtkWarpTransform(): this->InverseIterations = 500
DefaultIterations == 500

(***************************************************************************)
(* Rational arithmetic (the double arithmetic of the source).  The         *)
(* operations are functions, so that an argument is evaluated once.        *)
(***************************************************************************)
Q == Int \X Int

Abs(a) == IF a < 0 THEN -a ELSE a

GCD[a \in Nat, b \in Nat] == IF b = 0 THEN a ELSE GCD[b, a % b]

LCM[a \in Nat, b \in Nat] == (a \div GCD[a, b]) * b

\* the rational n/d (d # 0) in lowest terms with a positive denominator
Rat[n \in Int, d \in Int] ==
  LET g == GCD[Abs(n), Abs(d)]
  IN  IF d < 0 THEN <<(-n) \div g, (-d) \div g>> ELSE <<n \div g, d \div g>>

RInt(k) == <<k, 1>>
RZero == <<0, 1>>
ROne == <<1, 1>>

RNeg[x \in Q] == <<-x[1], x[2]>>

RAdd[x \in Q, y \in Q] ==
  LET g == GCD[x[2], y[2]]
  IN  Rat[x[1] * (y[2] \div g) + y[1] * (x[2] \div g), (x[2] \div g) * y[2]]

RSub[x \in Q, y \in Q] == RAdd[x, RNeg[y]]

RMul[x \in Q, y \in Q] ==
  LET g1 == GCD[Abs(x[1]), y[2]]
      g2 == GCD[Abs(y[1]), x[2]]
  IN  Rat[(x[1] \div g1) * (y[1] \div g2), (x[2] \div g2) * (y[2] \div g1)]

\* x / y for y # 0
RDiv[x \in Q, y \in Q] == RMul[x, Rat[y[2], y[1]]]

\* a/b < c/d for b, d > 0, by comparing integer parts and then the
\* reciprocals of the fractional parts (no cross product is formed)
FracLess[a \in Int, b \in Int, c \in Int, d \in Int] ==
  IF (a \div b) # (c \div d) THEN (a \div b) < (c \div d)
  ELSE IF c % d = 0 THEN FALSE
  ELSE IF a % b = 0 THEN TRUE
  ELSE FracLess[d, c % d, b, a % b]

RLess[x \in Q, y \in Q] == FracLess[x[1], x[2], y[1], y[2]]
RGreater[x \in Q, y \in Q] == RLess[y, x]
RLeq[x \in Q, y \in Q] == ~RLess[y, x]
RMin[x \in Q, y \in Q] == IF RLess[y, x] THEN y ELSE x

(***************************************************************************)
(* Points (double[3]) and matrices (double[3][3]).                         *)
(***************************************************************************)
V3 == Q \X Q \X Q
M3 == V3 \X V3 \X V3
Z3 == Int \X Int \X Int

Vec(a, b, c) == <<RInt(a), RInt(b), RInt(c)>>
ZeroVec == Vec(0, 0, 0)
ZeroMat == <<ZeroVec, ZeroVec, ZeroVec>>

VSub[u \in V3, v \in V3] == <<RSub[u[1], v[1]], RSub[u[2], v[2]], RSub[u[3], v[3]]>>
VScale[f \in Q, u \in V3] == <<RMul[f, u[1]], RMul[f, u[2]], RMul[f, u[3]]>>
Dot[u \in V3, v \in V3] ==
  RAdd[RAdd[RMul[u[1], v[1]], RMul[u[2], v[2]]], RMul[u[3], v[3]]]
Diag(a, b, c) == <<<<a, RZero, RZero>>, <<RZero, b, RZero>>, <<RZero, RZero, c>>>>

\* the least common denominator of the entries of a point, of a matrix
VDenominator[u \in V3] == LCM[LCM[u[1][2], u[2][2]], u[3][2]]
MDenominator[M \in M3] ==
  LCM[LCM[VDenominator[M[1]], VDenominator[M[2]]], VDenominator[M[3]]]

\* the integers L*u[k], L a multiple of the denominators of u
VNumerators[L \in Nat, u \in V3] ==
  <<u[1][1] * (L \div u[1][2]), u[2][1] * (L \div u[2][2]),
    u[3][1] * (L \div u[3][2])>>
MNumerators[L \in Nat, M \in M3] ==
  <<VNumerators[L, M[1]], VNumerators[L, M[2]], VNumerators[L, M[3]]>>

\* the determinant of a matrix of integers
IntDeterminant[N \in Z3 \X Z3 \X Z3] ==
    N[1][1] * (N[2][2] * N[3][3] - N[2][3] * N[3][2])
  - N[1][2] * (N[2][1] * N[3][3] - N[2][3] * N[3][1])
  + N[1][3] * (N[2][1] * N[3][2] - N[2][2] * N[3][1])

\* the determinant of M: that of the integer matrix L*M over L^3
ScaledDeterminant[L \in Nat, M \in M3] ==
  Rat[IntDeterminant[MNumerators[L, M]], L * L * L]

Determinant3x3[M \in M3] == ScaledDeterminant[MDenominator[M], M]

Singular[M \in M3] == Determinant3x3[M] = RZero

(***************************************************************************)
(* The forward transform: the pure virtual ForwardTransformPoint and       *)
(* ForwardTransformDerivative that a concrete warp supplies.  The model    *)
(* tries seven warps: four affine ones, two piecewise-linear ones (as a    *)
(* grid warp with linear interpolation is) and one that flattens space.    *)
(***************************************************************************)
Transforms == {"identity", "scale", "half", "shear", "kink", "bulge", "flat"}

\* the warps whose Jacobian is non-singular at every point
RegularTransforms == Transforms \ {"flat"}

\* a monotone piecewise-linear map of one coordinate: slopes 1/2, 2, 1/4
KinkSlope(x) ==
  IF RLess[x, RInt(-2)] THEN <<1, 2>>
  ELSE IF RLess[x, RInt(-1)] THEN <<2, 1>>
  ELSE <<1, 4>>

Kink(x) ==
  IF RLess[x, RInt(-2)] THEN RMul[<<1, 2>>, RAdd[x, RInt(2)]]
  ELSE IF RLess[x, RInt(-1)] THEN RMul[RInt(2), RAdd[x, RInt(2)]]
  ELSE RAdd[RInt(2), RMul[<<1, 4>>, RAdd[x, ROne]]]

\* an odd piecewise-linear map of one coordinate: steep (slope 4) on
\* [-1, 1], shallow (slope 1/4) outside
BulgeSlope(x) ==
  IF RLess[x, RInt(-1)] \/ RGreater[x, ROne] THEN <<1, 4>> ELSE <<4, 1>>

Bulge(x) ==
  IF RGreater[x, ROne] THEN RAdd[RInt(4), RMul[<<1, 4>>, RSub[x, ROne]]]
  ELSE IF RLess[x, RInt(-1)] THEN RAdd[RInt(-4), RMul[<<1, 4>>, RAdd[x, ROne]]]
  ELSE RMul[RInt(4), x]

ForwardTransformPoint(T, X) ==
  CASE T = "identity" -> X
    [] T = "scale"    -> VScale[RInt(2), X]
    [] T = "half"     -> VScale[<<1, 2>>, X]
    [] T = "shear"    -> <<RAdd[X[1], X[2]], RAdd[X[2], X[3]], X[3]>>
    [] T = "kink"     -> <<Kink(X[1]), X[2], X[3]>>
    [] T = "bulge"    -> <<Bulge(X[1]), X[2], X[3]>>
    [] T = "flat"     -> <<X[1], X[2], RZero>>

\* the Jacobian d output[i] / d input[j] of the warp at X
Jacobian(T, X) ==
  CASE T = "identity" -> Diag(ROne, ROne, ROne)
    [] T = "scale"    -> Diag(RInt(2), RInt(2), RInt(2))
    [] T = "half"     -> Diag(<<1, 2>>, <<1, 2>>, <<1, 2>>)
    [] T = "shear"    -> <<<<ROne, ROne, RZero>>, <<RZero, ROne, ROne>>,
                           <<RZero, RZero, ROne>>>>
    [] T = "kink"     -> Diag(KinkSlope(X[1]), ROne, ROne)
    [] T = "bulge"    -> Diag(BulgeSlope(X[1]), ROne, ROne)
    [] T = "flat"     -> Diag(ROne, ROne, RZero)

ForwardTransformDerivative(T, X) ==
  [output |-> ForwardTransformPoint(T, X), derivative |-> Jacobian(T, X)]

(***************************************************************************)
(* vtkMath::LinearSolve3x3 and vtkMath::Invert3x3.  On a non-singular      *)
(* matrix each has one result.  On a singular matrix the contract is       *)
(* "fails or returns undefined": the outcomes are a fault raised to the    *)
(* caller, or a return with a value nobody defined.                        *)
(***************************************************************************)
\* N with column k replaced by x
ReplaceColumn(N, k, x) ==
  <<<<IF k = 1 THEN x[1] ELSE N[1][1], IF k = 2 THEN x[1] ELSE N[1][2],
      IF k = 3 THEN x[1] ELSE N[1][3]>>,
    <<IF k = 1 THEN x[2] ELSE N[2][1], IF k = 2 THEN x[2] ELSE N[2][2],
      IF k = 3 THEN x[2] ELSE N[2][3]>>,
    <<IF k = 1 THEN x[3] ELSE N[3][1], IF k = 2 THEN x[3] ELSE N[3][2],
      IF k = 3 THEN x[3] ELSE N[3][3]>>>>

\* Cramer's rule on the integer matrix NA = LA*A and the integer right-hand
\* side NX = LX*x: y[k] = det(NA with column k := NX) / det(NA) * (LA/LX)
Cramer[NA \in Z3 \X Z3 \X Z3, NX \in Z3, s \in Q] ==
  <<RMul[Rat[IntDeterminant[ReplaceColumn(NA, 1, NX)], IntDeterminant[NA]], s],
    RMul[Rat[IntDeterminant[ReplaceColumn(NA, 2, NX)], IntDeterminant[NA]], s],
    RMul[Rat[IntDeterminant[ReplaceColumn(NA, 3, NX)], IntDeterminant[NA]], s]>>

\* the y with A y = x, for non-singular A
SolveExact[A \in M3, x \in V3] ==
  Cramer[MNumerators[MDenominator[A], A], VNumerators[VDenominator[x], x],
         Rat[MDenominator[A], VDenominator[x]]]

\* the transposed cofactors of the integer matrix N, each times L, over d
Adjugate[N \in Z3 \X Z3 \X Z3, L \in Nat, d \in Int] ==
  LET minor(r, c) ==
        LET rs == IF r = 1 THEN <<2, 3>> ELSE IF r = 2 THEN <<1, 3>> ELSE <<1, 2>>
            cs == IF c = 1 THEN <<2, 3>> ELSE IF c = 2 THEN <<1, 3>> ELSE <<1, 2>>
        IN  N[rs[1]][cs[1]] * N[rs[2]][cs[2]] - N[rs[1]][cs[2]] * N[rs[2]][cs[1]]
      cofactor(r, c) == IF (r + c) % 2 = 0 THEN minor(r, c) ELSE -minor(r, c)
      row(r) == <<Rat[cofactor(1, r) * L, d], Rat[cofactor(2, r) * L, d],
                  Rat[cofactor(3, r) * L, d]>>
  IN  <<row(1), row(2), row(3)>>

\* the inverse of a non-singular M, from the integer matrix L*M
ScaledInverse[L \in Nat, N \in Z3 \X Z3 \X Z3] == Adjugate[N, L, IntDeterminant[N]]

InverseExact[M \in M3] ==
  ScaledInverse[MDenominator[M], MNumerators[MDenominator[M], M]]

\* vtkMath::LinearSolve3x3(A, x, y): A y = x
LinearSolve3x3(A, x) ==
  IF Singular[A]
  THEN {[fault |-> TRUE, y |-> ZeroVec]}
       \cup {[fault |-> FALSE, y |-> u] : u \in {ZeroVec, x}}
  ELSE {[fault |-> FALSE, y |-> SolveExact[A, x]]}

\* vtkMath::Invert3x3(M, M)
Invert3x3(M) ==
  IF Singular[M]
  THEN {[fault |-> TRUE, m |-> ZeroMat]}
       \cup {[fault |-> FALSE, m |-> u] : u \in {ZeroMat, M}}
  ELSE {[fault |-> FALSE, m |-> InverseExact[M]]}

(***************************************************************************)
(* State.                                                                  *)
(***************************************************************************)
VARIABLES
  \* the object
  transform,          \* the concrete warp behind the virtual Forward* methods
  InverseFlag,        \* this->InverseFlag
  InverseTolerance,   \* this->InverseTolerance
  InverseIterations,  \* this->InverseIterations
  inverseCalls,       \* calls of Inverse() so far, each followed by Modified()
  \* the call in progress
  pc,                 \* "idle", "loop" (at the for statement), "done", "fault"
  op,                 \* "none", "point", "derivative": the entry point called
  route,              \* "none", "forward", "inverse": the branch it took
  flagAtCall,         \* InverseFlag when the call was made
  input,              \* the caller's input point
  output,             \* the caller's output point
  outDerivative,      \* the caller's derivative[3][3]
  forwardOutput,      \* what ForwardTransformDerivative first put in output
  \* locals of InverseTransformPoint
  point, inverse, lastInverse, deltaP, deltaI, derivative,
  errorSquared, lastErrorSquared, n, i,
  \* what the call did
  warned,             \* vtkWarningMacro("... no convergence ...") was emitted
  raised,             \* "none", or the 3x3 utility that raised a fault
  fault,              \* the fault went up to the caller
  solves,             \* calls of vtkMath::LinearSolve3x3
  evals,              \* calls of ForwardTransformPoint / ForwardTransformDerivative
  backtracked,        \* the last iteration took the backtracking branch
  rawErrorSquared,    \* the error of the last full Newton step
  bestErrorSquared,   \* the least error recorded so far (seed included)
  singularSolve       \* LinearSolve3x3 was handed a singular matrix

objVars == <<transform, InverseFlag, InverseTolerance, InverseIterations,
             inverseCalls>>
callVars == <<pc, op, route, flagAtCall, input, output, outDerivative,
              forwardOutput>>
solverVars == <<point, inverse, lastInverse, deltaP, deltaI, derivative,
                errorSquared, lastErrorSquared, n, i>>
obsVars == <<warned, raised, fault, solves, evals, backtracked, rawErrorSquared,
             bestErrorSquared, singularSolve>>
vars == <<objVars, callVars, solverVars, obsVars>>

(***************************************************************************)
(* Inputs.                                                                 *)
(***************************************************************************)
Coords == (-MaxCoord)..MaxCoord

\* the target of the uniform-scale scenario
ScenarioPoint == Vec(4, 2, 6)

Points == {Vec(a, b, c) : a \in Coords, b \in Coords, c \in Coords}
            \cup {ScenarioPoint}

\* vtkWarpTransform::vtkWarpTransform(): this->InverseTolerance = 0.001
DefaultTolerance == <<1, 1000>>

Tolerances == {DefaultTolerance, <<1, 2>>}

IterationChoices == ((-1)..MaxIterations) \cup {DefaultIterations}

\* A budget above MaxIterations is explored on the warps whose Jacobian is
\* never singular; on the flattening warp the undefined results of the
\* solve are followed for at most MaxIterations iterations.
Explored == InverseIterations <= MaxIterations \/ transform \in RegularTransforms

(***************************************************************************)
(* The steps of InverseTransformPoint(const double[3], double[3]).         *)
(***************************************************************************)
\* inverse[k] -= 2*(inverse[k]-point[k]), inverse holding Forward(point)
SeedInverse(p, fwd) == VSub[fwd, VScale[RInt(2), VSub[fwd, p]]]

\* deltaP[0]*deltaP[0] + deltaP[1]*deltaP[1] + deltaP[2]*deltaP[2]
ErrorSquared(dP) == Dot[dP, dP]

\* toleranceSquared = this->InverseTolerance*this->InverseTolerance
ToleranceSquared(tol) == RMul[tol, tol]

\* the loop condition without its budget test
LoopConditionUnbounded(k, budget, err, tolSq) == RGreater[err, tolSq]

\* the loop condition without its convergence test
LoopConditionBlind(k, budget, err, tolSq) == k < budget

\* for (...; i < n && errorSquared > toleranceSquared; ...)
LoopCondition(k, budget, err, tolSq) == k < budget /\ RGreater[err, tolSq]

\* gradient[k] = deltaP[k]*derivative[k][k]*2
Gradient(dP, der) ==
  <<RMul[RMul[dP[1], der[1][1]], RInt(2)],
    RMul[RMul[dP[2], der[2][2]], RInt(2)],
    RMul[RMul[dP[3], der[3][3]], RInt(2)]>>

\* the backtracking test with >= for >
ErrorNotDecreasing(err, lastErr) == RLeq[lastErr, err]

\* the backtracking test with the comparison turned round
ErrorDecreasing(err, lastErr) == RLess[err, lastErr]

\* if (errorSquared > lastErrorSquared)
ErrorIncreasing(err, lastErr) == RGreater[err, lastErr]

\* lastErrorSquaredD = gradient[0]*deltaI[0] + gradient[1]*deltaI[1] + ...
LastErrorSquaredD(gradient, dI) == Dot[gradient, dI]

\* the divisor 2*(errorSquared-lastErrorSquared-lastErrorSquaredD)
FractionDivisor(errD, err, lastErr) ==
  RMul[RInt(2), RSub[RSub[err, lastErr], errD]]

\* f = lastErrorSquaredD/divisor; a zero divisor makes the double quotient
\* +inf or -inf, written <<1, 0>> and <<-1, 0>> (lastErrorSquaredD is not 0
\* there: the divisor is 0 and errorSquared > lastErrorSquared)
QuadraticFraction(errD, den) ==
  IF den = RZero
  THEN (IF RGreater[errD, RZero] THEN <<1, 0>> ELSE <<-1, 0>>)
  ELSE RDiv[errD, den]

\* if (f < 0.1) f = 0.1;  if (f > 0.5) f = 0.5;
ClampFraction(f) ==
  IF f[2] = 0 THEN (IF f[1] > 0 THEN <<1, 2>> ELSE <<1, 10>>)
  ELSE IF RLess[f, <<1, 10>>] THEN <<1, 10>>
  ELSE IF RGreater[f, <<1, 2>>] THEN <<1, 2>>
  ELSE f

\* inverse[k] = lastInverse[k] - f*deltaI[k]
BacktrackInverse(lastInv, f, dI) == VSub[lastInv, VScale[f, dI]]

\* the warning test off by one
NoConvergenceStrict(k, budget) == k > budget

\* if (i >= this->InverseIterations) vtkWarningMacro(...)
NoConvergence(k, budget) == k >= budget

\* ForwardTransformDerivative(inverse,deltaP,derivative), deltaP[k] -= point[k]
\* and errorSquared, at the candidate inv: what the solver holds after them
Residual(inv, d, dP) ==
  [inverse |-> inv, deltaP |-> dP, derivative |-> d.derivative,
   errorSquared |-> ErrorSquared(dP)]

Candidate(p, inv, d) == Residual(inv, d, VSub[d.output, p])

\* the previous candidate written out instead of the current one
ResultPointStale(inv, lastInv) == lastInv

\* output[k] = inverse[k]
ResultPoint(inv, lastInv) == inv

\* lines 153-178: the first guess and its error
BeginInverse(p) ==
  \E fwd \in {ForwardTransformPoint(transform, p)} :
  \E inv0 \in {SeedInverse(p, fwd)} :
  \E d \in {ForwardTransformDerivative(transform, inv0)} :
  \E c \in {Candidate(p, inv0, d)} :
      /\ point' = p
      /\ inverse' = c.inverse
      /\ deltaP' = c.deltaP
      /\ derivative' = c.derivative
      /\ errorSquared' = c.errorSquared
      /\ n' = InverseIterations
      /\ i' = 0
      /\ evals' = 2
      /\ bestErrorSquared' = c.errorSquared
      /\ rawErrorSquared' = c.errorSquared
      /\ pc' = "loop"
      /\ UNCHANGED <<lastInverse, deltaI, lastErrorSquared, warned, raised,
                     fault, solves, backtracked, singularSolve>>

\* the end of a pass through the loop body: c is the candidate kept
EndIteration(dI, raw, back, c) ==
  /\ lastErrorSquared' = errorSquared
  /\ deltaI' = dI
  /\ lastInverse' = inverse
  /\ rawErrorSquared' = raw
  /\ backtracked' = back
  /\ inverse' = c.inverse
  /\ deltaP' = c.deltaP
  /\ derivative' = c.derivative
  /\ errorSquared' = c.errorSquared
  /\ evals' = evals + (IF back THEN 2 ELSE 1)
  /\ bestErrorSquared' = RMin[bestErrorSquared, c.errorSquared]
  /\ i' = i + 1
  /\ UNCHANGED <<pc, raised, fault>>

\* lines 215-254: the error is increasing, backtrack
Backtrack(dI, raw) ==
  \E gradient \in {Gradient(deltaP, derivative)} :
  \E errD \in {LastErrorSquaredD(gradient, dI)} :
  \E den \in {FractionDivisor(errD, raw, errorSquared)} :
  \E q \in {QuadraticFraction(errD, den)} :
  \E f \in {ClampFraction(q)} :
  \E inv2 \in {BacktrackInverse(inverse, f, dI)} :
  \E d2 \in {ForwardTransformDerivative(transform, inv2)} :
  \E c2 \in {Candidate(point, inv2, d2)} :
      EndIteration(dI, raw, TRUE, c2)

\* the fault caught and dropped, the call going on
SolveFaultSwallowed == UNCHANGED <<pc, fault>>

\* line 185, LinearSolve3x3 raising: nothing in InverseTransformPoint
\* handles it, the call ends there and the fault is the caller's
SolveFault == pc' = "fault" /\ fault' = TRUE

\* lines 179-255: one pass through the body of the for loop
NewtonIteration ==
  /\ pc = "loop"
  /\ LoopCondition(i, n, errorSquared, ToleranceSquared(InverseTolerance))
  /\ solves' = solves + 1
  /\ singularSolve' = (singularSolve \/ Singular[derivative])
  /\ \E r \in LinearSolve3x3(derivative, deltaP) :
       IF r.fault
       THEN /\ raised' = "LinearSolve3x3"
            /\ SolveFault
            /\ UNCHANGED <<inverse, lastInverse, deltaP, deltaI, derivative,
                           errorSquared, lastErrorSquared, i, evals,
                           backtracked, rawErrorSquared, bestErrorSquared>>
       ELSE \E dI \in {r.y} :
            \E inv1 \in {VSub[inverse, dI]} :
            \E d1 \in {ForwardTransformDerivative(transform, inv1)} :
            \E c1 \in {Candidate(point, inv1, d1)} :
                IF ErrorIncreasing(c1.errorSquared, errorSquared)
                THEN Backtrack(dI, c1.errorSquared)
                ELSE EndIteration(dI, c1.errorSquared, FALSE, c1)
  /\ UNCHANGED <<objVars, op, route, flagAtCall, input, output, outDerivative,
                 forwardOutput, point, n, warned>>

\* the inversion of the forward derivative left out
InvertDerivativeSkipped(M) == {[fault |-> FALSE, m |-> M]}

\* InternalTransformDerivative: vtkMath::Invert3x3(derivative,derivative)
InvertDerivative(M) == Invert3x3(M)

\* lines 257-271: the loop is left, the result goes out; then, in
\* InternalTransformDerivative, vtkMath::Invert3x3(derivative,derivative)
ExitLoop ==
  /\ pc = "loop"
  /\ ~LoopCondition(i, n, errorSquared, ToleranceSquared(InverseTolerance))
  /\ output' = ResultPoint(inverse, lastInverse)
  /\ warned' = NoConvergence(i, InverseIterations)
  /\ IF op = "derivative"
     THEN \E r \in InvertDerivative(outDerivative) :
            IF r.fault
            THEN /\ raised' = "Invert3x3"
                 /\ pc' = "fault"
                 /\ fault' = TRUE
                 /\ UNCHANGED outDerivative
            ELSE /\ pc' = "done"
                 /\ outDerivative' = r.m
                 /\ UNCHANGED <<raised, fault>>
     ELSE pc' = "done" /\ UNCHANGED <<outDerivative, raised, fault>>
  /\ UNCHANGED <<objVars, op, route, flagAtCall, input, forwardOutput,
                 solverVars, solves, evals, backtracked, rawErrorSquared,
                 bestErrorSquared, singularSolve>>

(***************************************************************************)
(* The entry points.                                                       *)
(***************************************************************************)
\* InternalTransformPoint(const double input[3], double output[3])
InternalTransformPoint(p) ==
  /\ pc = "idle"
  /\ Explored
  /\ op' = "point"
  /\ input' = p
  /\ flagAtCall' = InverseFlag
  /\ IF InverseFlag # 0
     THEN /\ route' = "inverse"
          /\ BeginInverse(p)
          /\ UNCHANGED output
     ELSE /\ route' = "forward"
          /\ output' = ForwardTransformPoint(transform, p)
          /\ pc' = "done"
          /\ evals' = 1
          /\ UNCHANGED <<solverVars, warned, raised, fault, solves,
                         backtracked, rawErrorSquared, bestErrorSquared,
                         singularSolve>>
  /\ UNCHANGED <<objVars, outDerivative, forwardOutput>>

\* InternalTransformDerivative(const double input[3], double output[3],
\*                             double derivative[3][3])
InternalTransformDerivative(p) ==
  /\ pc = "idle"
  /\ Explored
  /\ op' = "derivative"
  /\ input' = p
  /\ flagAtCall' = InverseFlag
  /\ IF InverseFlag # 0
     THEN \E tmp \in {p} :
          \E d \in {ForwardTransformDerivative(transform, tmp)} :
              /\ route' = "inverse"
              /\ forwardOutput' = d.output
              /\ outDerivative' = d.derivative
              /\ BeginInverse(tmp)
              /\ UNCHANGED output
     ELSE \E d \in {ForwardTransformDerivative(transform, p)} :
              /\ route' = "forward"
              /\ output' = d.output
              /\ outDerivative' = d.derivative
              /\ forwardOutput' = d.output
              /\ pc' = "done"
              /\ evals' = 1
              /\ UNCHANGED <<solverVars, warned, raised, fault, solves,
                             backtracked, rawErrorSquared, bestErrorSquared,
                             singularSolve>>
  /\ UNCHANGED objVars

\* the call returns (or the fault leaves it): its locals are gone
Return ==
  /\ pc \in {"done", "fault"}
  /\ pc' = "idle"
  /\ op' = "none"
  /\ route' = "none"
  /\ flagAtCall' = 0
  /\ input' = ZeroVec
  /\ output' = ZeroVec
  /\ outDerivative' = ZeroMat
  /\ forwardOutput' = ZeroVec
  /\ point' = ZeroVec
  /\ inverse' = ZeroVec
  /\ lastInverse' = ZeroVec
  /\ deltaP' = ZeroVec
  /\ deltaI' = ZeroVec
  /\ derivative' = ZeroMat
  /\ errorSquared' = RZero
  /\ lastErrorSquared' = RZero
  /\ n' = 0
  /\ i' = 0
  /\ warned' = FALSE
  /\ raised' = "none"
  /\ fault' = FALSE
  /\ solves' = 0
  /\ evals' = 0
  /\ backtracked' = FALSE
  /\ rawErrorSquared' = RZero
  /\ bestErrorSquared' = RZero
  /\ singularSolve' = FALSE
  /\ UNCHANGED objVars

\* the flag set instead of flipped
ToggleFlagSet(flag) == 1

\* this->InverseFlag = !this->InverseFlag
ToggleFlag(flag) == IF flag = 0 THEN 1 ELSE 0

\* Inverse(): flip the flag, then this->Modified()
Inverse ==
  /\ pc = "idle"
  /\ inverseCalls < MaxInverseCalls
  /\ InverseFlag' = ToggleFlag(InverseFlag)
  /\ inverseCalls' = inverseCalls + 1
  /\ UNCHANGED <<transform, InverseTolerance, InverseIterations, callVars,
                 solverVars, obsVars>>

\* SetInverseIterations(int)
SetInverseIterations(k) ==
  /\ pc = "idle"
  /\ k # InverseIterations
  /\ InverseIterations' = k
  /\ UNCHANGED <<transform, InverseFlag, InverseTolerance, inverseCalls,
                 callVars, solverVars, obsVars>>

\* SetInverseTolerance(double)
SetInverseTolerance(t) ==
  /\ pc = "idle"
  /\ t # InverseTolerance
  /\ InverseTolerance' = t
  /\ UNCHANGED <<transform, InverseFlag, InverseIterations, inverseCalls,
                 callVars, solverVars, obsVars>>

\* vtkWarpTransform::vtkWarpTransform(), no call in progress
Init ==
  /\ transform \in Transforms
  /\ InverseFlag = 0
  /\ InverseTolerance = DefaultTolerance
  /\ InverseIterations = DefaultIterations
  /\ inverseCalls = 0
  /\ pc = "idle"
  /\ op = "none"
  /\ route = "none"
  /\ flagAtCall = 0
  /\ input = ZeroVec
  /\ output = ZeroVec
  /\ outDerivative = ZeroMat
  /\ forwardOutput = ZeroVec
  /\ point = ZeroVec
  /\ inverse = ZeroVec
  /\ lastInverse = ZeroVec
  /\ deltaP = ZeroVec
  /\ deltaI = ZeroVec
  /\ derivative = ZeroMat
  /\ errorSquared = RZero
  /\ lastErrorSquared = RZero
  /\ n = 0
  /\ i = 0
  /\ warned = FALSE
  /\ raised = "none"
  /\ fault = FALSE
  /\ solves = 0
  /\ evals = 0
  /\ backtracked = FALSE
  /\ rawErrorSquared = RZero
  /\ bestErrorSquared = RZero
  /\ singularSolve = FALSE

Next ==
  \/ \E p \in Points : InternalTransformPoint(p)
  \/ \E p \in Points : InternalTransformDerivative(p)
  \/ NewtonIteration
  \/ ExitLoop
  \/ Return
  \/ Inverse
  \/ \E k \in IterationChoices : SetInverseIterations(k)
  \/ \E t \in Tolerances : SetInverseTolerance(t)

Spec == Init /\ [][Next]_vars

(***************************************************************************)
(* Properties.                                                             *)
(***************************************************************************)
TolSq == ToleranceSquared(InverseTolerance)

\* |Forward(output) - input|^2, computed afresh from the returned point
ResidualSquared ==
  ErrorSquared(VSub[ForwardTransformPoint(transform, output), input])

DistanceSquared(u, v) == ErrorSquared(VSub[u, v])

\* an InverseTransformPoint call that has returned its point
InverseDone == pc = "done" /\ route = "inverse"

\* an InverseTransformPoint call between two passes of its loop, or past it
InverseRunning == pc \in {"loop", "done"} /\ route = "inverse"

Max(a, b) == IF a > b THEN a ELSE b

\* the points whose forward images are looked for among the targets
SourcePoints ==
  {Vec(a, b, c) : a \in (-2)..2, b \in (-2)..2, c \in (-2)..2}
    \cup {Vec(2, 1, 3)}

\* C1 (as stated, under the constructor's budget of 500 iterations): with a
\* Jacobian that is never singular, the returned X has |Forward(X) - P| within
\* InverseTolerance, and a target P' = Forward(P) gives back a point within
\* InverseTolerance of P.
C1_RoundTrip ==
  (InverseDone /\ transform \in RegularTransforms
     /\ InverseIterations = DefaultIterations)
  => /\ RLeq[ResidualSquared, TolSq]
     /\ \A P \in SourcePoints :
          ForwardTransformPoint(transform, P) = input
            => RLeq[DistanceSquared(output, P), TolSq]

\* C1 (amended): a call that met no singular Jacobian and returns without the
\* no-convergence warning returns X with |Forward(X) - P| within
\* InverseTolerance; for a target Forward(P) that is |Forward(X) - Forward(P)|.
C1_ConvergedRoundTrip ==
  (InverseDone /\ ~singularSolve /\ ~warned) => RLeq[ResidualSquared, TolSq]

\* C1 witness: a warp that is not affine, inverted in two or more iterations
\* without the warning
C1_Witness ==
  /\ InverseDone /\ ~singularSolve /\ ~warned
  /\ transform = "bulge" /\ i >= 2

\* C2: a call makes at most max(InverseIterations, 0) iterations; each
\* takes one LinearSolve3x3 and one or two ForwardTransformDerivative calls,
\* two only when it backtracks; with the two evaluations of the first guess
\* that is at most 2 + 2*max(InverseIterations, 0) forward evaluations.
C2_BoundedWork ==
  route = "inverse"
  => /\ n = InverseIterations
     /\ i <= Max(InverseIterations, 0)
     /\ solves = (IF raised = "LinearSolve3x3" THEN i + 1 ELSE i)
     /\ evals >= 2 + i
     /\ evals <= 2 + 2 * i
     /\ evals <= 2 + 2 * Max(InverseIterations, 0)

\* C2 witness: the budget is used up, the last pass backtracked
C2_Witness ==
  /\ InverseDone /\ i = InverseIterations /\ i >= 2
  /\ backtracked /\ warned /\ evals > 2 + i

\* C3 (as stated): the error recorded at the end of an iteration is never
\* greater than the one recorded before it.
C3_Monotonic ==
  (InverseRunning /\ ~singularSolve /\ i >= 1)
  => RLeq[errorSquared, lastErrorSquared]

\* C3 (amended): an iteration backtracks exactly when its Newton step
\* increased the error; the error recorded by an iteration that did not
\* backtrack is that of the Newton step and is not greater than the previous
\* one; an iteration that backtracks records the error of its one corrected
\* candidate, whatever it is.
C3_MonotonicWithoutBacktrack ==
  (InverseRunning /\ i >= 1)
  => /\ backtracked <=> RGreater[rawErrorSquared, lastErrorSquared]
     /\ ~backtracked => /\ errorSquared = rawErrorSquared
                        /\ RLeq[errorSquared, lastErrorSquared]

\* C3 witness: a Newton step that increased the error, corrected to a smaller one
C3_Witness ==
  /\ InverseRunning /\ ~singularSolve /\ i >= 1 /\ backtracked
  /\ RLess[errorSquared, lastErrorSquared]

\* C4 (as stated): the residual of the returned point is not greater than
\* that of the first guess or of any candidate kept by an earlier iteration.
C4_BestReturned ==
  (InverseDone /\ ~singularSolve) => RLeq[ResidualSquared, bestErrorSquared]

\* C4 (amended): the returned point is the candidate the loop ended with (the
\* first guess when no iteration ran), its residual is the final errorSquared,
\* and it is the best one found when no iteration backtracked.
C4_LastReturned ==
  InverseDone
  => /\ output = inverse
     /\ ResidualSquared = errorSquared
     /\ evals = 2 + i => RLeq[ResidualSquared, bestErrorSquared]

\* C4 witness: the call ends without convergence, after a pass that backtracked
C4_Witness ==
  /\ InverseDone /\ warned /\ RGreater[errorSquared, TolSq]
  /\ i >= 2 /\ evals > 2 + i /\ output # lastInverse

\* C5: the warning is emitted exactly when the final error is above the
\* tolerance (budgets of at least one iteration).
C5_WarningIffNotConverged ==
  (InverseDone /\ InverseIterations >= 1)
  => (warned <=> RGreater[errorSquared, TolSq])

C7_FlagParity ==
  /\ InverseFlag = inverseCalls % 2
  /\ (pc = "done" /\ inverseCalls % 2 = 0)
       => /\ route = "forward"
          /\ output = ForwardTransformPoint(transform, input)
          /\ op = "derivative" => outDerivative = Jacobian(transform, input)

C7_InverseOnlyFlips ==
  inverseCalls' # inverseCalls
    => /\ inverseCalls' = inverseCalls + 1
       /\ InverseFlag' = 1 - InverseFlag
       /\ UNCHANGED <<transform, InverseTolerance, InverseIterations,
                      callVars, solverVars, obsVars>>

C7_ModeInvolution == [](C7_FlagParity) /\ [][C7_InverseOnlyFlips]_vars

\* C7 witness: after two Inverse() calls a point went through the forward
\* evaluator
C7_Witness ==
  /\ inverseCalls = 2 /\ pc = "done" /\ op = "point"
  /\ route = "forward" /\ input = Vec(1, 1, 1)

\* C8 (as stated): on the identity warp the inverse takes exactly one
\* iteration and one solve, and returns P.
C8_IdentityOneIteration ==
  (InverseDone /\ transform = "identity" /\ InverseIterations >= 1)
  => (i = 1 /\ solves = 1 /\ output = input)

\* C8 (amended): on the identity warp the first guess is P with error 0, so
\* the inverse takes no iteration and no solve, and returns P.
C8_IdentityNoIteration ==
  (InverseDone /\ transform = "identity")
  => (i = 0 /\ solves = 0 /\ evals = 2 /\ output = input)

\* C8 witness: the identity warp inverted at a point other than the origin
C8_Witness ==
  /\ InverseDone /\ transform = "identity" /\ input = Vec(1, -1, 1)
  /\ InverseIterations >= 1

\* C9: Forward(X) = 2X, default tolerance and budget, target (4,2,6): the
\* result is exactly (2,1,3) after one iteration, no backtracking, no warning.
C9_UniformScale ==
  (InverseRunning /\ transform = "scale" /\ input = ScenarioPoint
     /\ InverseTolerance = DefaultTolerance
     /\ InverseIterations = DefaultIterations)
  => /\ i <= 1 /\ solves = i /\ evals = 2 + i
     /\ ~backtracked /\ ~warned
     /\ i = 1 => (inverse = Vec(2, 1, 3) /\ errorSquared = RZero)
     /\ pc = "done" => (output = Vec(2, 1, 3) /\ i = 1)

C9_Witness ==
  /\ InverseDone /\ transform = "scale" /\ input = ScenarioPoint
  /\ InverseTolerance = DefaultTolerance
  /\ InverseIterations = DefaultIterations

\* C10: InternalTransformDerivative in forward mode returns the point and the
\* derivative of ForwardTransformDerivative at the input; in inverse mode the
\* point is the one InverseTransformPoint found for the input and the
\* derivative is Invert3x3 of the forward Jacobian at the input; the flag is
\* as it was when the call was made.
C10_DerivativeDispatch ==
  /\ op # "none" => InverseFlag = flagAtCall
  /\ (pc = "done" /\ op = "derivative" /\ flagAtCall = 0)
       => /\ route = "forward"
          /\ output = ForwardTransformDerivative(transform, input).output
          /\ outDerivative = ForwardTransformDerivative(transform, input).derivative
  /\ (pc = "done" /\ op = "derivative" /\ flagAtCall # 0)
       => /\ route = "inverse"
          /\ point = input
          /\ output = inverse
          /\ ResidualSquared = errorSquared
          /\ forwardOutput = ForwardTransformPoint(transform, input)
          /\ outDerivative \in
               {r.m : r \in {q \in Invert3x3(Jacobian(transform, input)) : ~q.fault}}

\* C10 witness: inverse mode, a warp whose Jacobian at the input differs from
\* the one at the returned point, and a returned point other than the forward one
C10_Witness ==
  /\ pc = "done" /\ op = "derivative" /\ flagAtCall = 1
  /\ transform = "bulge" /\ output # forwardOutput
  /\ Jacobian(transform, input) # Jacobian(transform, output)

=============================================================================
